---- MODULE Spec2Model ----
(***************************************************************************)
(* State-machine model of the snapshot resource of the Daytona Terraform   *)
(* provider (internal/resources, SnapshotResource): the Create, Read,      *)
(* Update, Delete and ImportState handlers and the phases they sequence    *)
(* (maybeCleanupExistingCreationAttempt, pushImageToRegistry,              *)
(* registerSnapshot, ensureSnapshotAvailable, readSnapshot,                *)
(* deleteSnapshot), run against a model of the remote platform, the local  *)
(* container engine and the request context.                               *)
(***************************************************************************)
EXTENDS Integers, Sequences, FiniteSets, TLC

(***************************************************************************)
(* Bounds of the model.                                                    *)
(***************************************************************************)
\* not-ready answers one polling loop may see before the model stops it
MaxPolls == 1
\* readings of the wall clock, in ticks, that time.Now() may return
MaxClock == 3
\* clock ticks per wall-clock second
TicksPerSecond == 2
\* publish calls of the publisher specification
MaxPublish == 2

(***************************************************************************)
(* Strings the code splits or formats are sequences of characters.        *)
(***************************************************************************)
ImgA == <<"a", "/", "b", ":", "v">>
ImgB == <<"b">>
EmptyString == <<>>
LocalImages == {ImgA, ImgB}
RegistryUrl == <<"r">>
Project == <<"p">>

Names == {"n1", "n2"}
SnapIds == {"s1", "s2"}
UnknownString == "?"
UnknownInt == -1
UnknownRef == <<"?">>
\* the null value of types.String, types.Float32 and of a string attribute
NullString == "null"
NullInt == -2
NullRef == <<"null">>

(***************************************************************************)
(* Diagnostics: diag.Diagnostics is a sequence of classified entries.      *)
(***************************************************************************)
Diag(sev, summary, detail, arg) ==
    [sev |-> sev, summary |-> summary, detail |-> detail, arg |-> arg]

AddError(ds, summary, detail, arg) == Append(ds, Diag("error", summary, detail, arg))

AddWarning(ds, summary, detail, arg) == Append(ds, Diag("warning", summary, detail, arg))

HasError(ds) == \E i \in DOMAIN ds : ds[i].sev = "error"

(***************************************************************************)
(* The remote platform: a snapshot per id.  "unused" ids were never        *)
(* assigned, "gone" ids belonged to a snapshot that was removed.           *)
(***************************************************************************)
NoSnapshot(st) ==
    [id |-> "", name |-> "", state |-> st, cpu |-> 0, gpu |-> 0, mem |-> 0,
     disk |-> 0, createdAt |-> 0, org |-> <<>>, image |-> <<>>, size |-> <<>>,
     reason |-> <<>>]

Live(s) == s.state \notin {"unused", "gone"}

InProgressStates == {"building"}
TerminalStates == {"active", "error", "build_failed"}

\* the ids a GetSnapshot(nameOrId) key resolves to
Lookup(r, key) == {i \in SnapIds : Live(r[i]) /\ (i = key \/ r[i].name = key)}

\* answers of SnapshotsAPI.GetSnapshot(ctx, key).Execute(): the snapshot, a
\* 404, or another failure (network, 5xx, a done context)
GetSnapshot(r, key) ==
    (IF Lookup(r, key) = {}
       THEN {[status |-> "404", snap |-> NoSnapshot("gone")]}
       ELSE {[status |-> "ok", snap |-> r[i]] : i \in Lookup(r, key)})
    \cup {[status |-> "err", snap |-> NoSnapshot("gone")]}

\* answers of SnapshotsAPI.RemoveSnapshot(ctx, id).Execute(), each with the
\* platform state it leaves: removal is asynchronous
RemoveSnapshot(r, id) ==
    (IF id \in SnapIds /\ Live(r[id])
       THEN {[status |-> "ok", remote |-> [r EXCEPT ![id].state = "removing"]]}
       ELSE {[status |-> "404", remote |-> r]})
    \cup {[status |-> "err", remote |-> r]}

FreshId(r) == CHOOSE i \in SnapIds : r[i].state = "unused"

\* answers of SnapshotsAPI.CreateSnapshot(ctx).CreateSnapshot(req).Execute():
\* the platform keeps names unique among live snapshots
CreateSnapshot(r, req, now) ==
    (IF Lookup(r, req.name) = {} /\ \E i \in SnapIds : r[i].state = "unused"
       THEN {[status |-> "ok",
              remote |-> [r EXCEPT ![FreshId(r)] =
                  [id |-> FreshId(r), name |-> req.name, state |-> "building",
                   cpu |-> req.cpu, gpu |-> 0, mem |-> req.memory,
                   disk |-> req.disk, createdAt |-> now, org |-> <<"o1">>,
                   image |-> <<req.imageName>>, size |-> <<>>,
                   reason |-> <<>>]]]}
       ELSE {})
    \cup {[status |-> "err", remote |-> r]}

(***************************************************************************)
(* SnapshotResourceModel                                                   *)
(***************************************************************************)
NoRecord == [id |-> ""]

\* a second invocation of createSnapshot that has not started: where it
\* stands, its reconciler's existingSnapshot.Id, the id the platform gave
\* the snapshot it registered, the id it returned, and whether it returned
\* errors
NoPeer == [pc |-> "idle", existingId |-> "", registered |-> "", id |-> "", failed |-> FALSE]

Model(id, name, imageName, cpu, memory, disk, keep) ==
    [id |-> id, name |-> name, imageName |-> imageName,
     remoteImageName |-> UnknownRef, organizationId |-> UnknownString,
     size |-> UnknownInt, cpu |-> cpu, gpu |-> UnknownInt, memory |-> memory,
     disk |-> disk, createdAt |-> UnknownInt, keepRemotely |-> keep]

\* time.Time.Format("2006-01-02T15:04:05Z07:00"): second precision
FormatRFC3339(t) == t \div TicksPerSecond

(***************************************************************************)
(* pushImageToRegistry's target reference.                                 *)
(***************************************************************************)
\* strings.Split(s, sep) for a one-character separator
RECURSIVE Split(_, _)
Split(s, sep) ==
    IF \A i \in DOMAIN s : s[i] # sep
      THEN <<s>>
      ELSE LET k == CHOOSE i \in DOMAIN s :
                        s[i] = sep /\ \A j \in 1..(i - 1) : s[j] # sep
           IN  <<SubSeq(s, 1, k - 1)>> \o Split(SubSeq(s, k + 1, Len(s)), sep)

DigitChar(d) == <<"0", "1", "2", "3", "4", "5", "6", "7", "8", "9">>[d + 1]

\* n in decimal, zero-padded to w digits
RECURSIVE Pad(_, _)
Pad(n, w) == IF w = 0 THEN <<>> ELSE Pad(n \div 10, w - 1) \o <<DigitChar(n % 10)>>

\* the wall clock read t ticks after 2025-06-15 12:59:59
WallClock(t) ==
    LET s == 46799 + (t \div TicksPerSecond)
    IN  [year |-> 2025, month |-> 6, day |-> 15, hour |-> s \div 3600,
         minute |-> (s \div 60) % 60, second |-> s % 60]

\* the timestamp formatted with the date layout "20060102" only
FormatTimestamp_DateOnly(t) ==
    LET c == WallClock(t)
    IN  Pad(c.year, 4) \o Pad(c.month, 2) \o Pad(c.day, 2)

\* time.Now().Format("20060102150405")
FormatTimestamp(t) ==
    LET c == WallClock(t)
    IN  Pad(c.year, 4) \o Pad(c.month, 2) \o Pad(c.day, 2) \o Pad(c.hour, 2)
          \o Pad(c.minute, 2) \o Pad(c.second, 2)

\* lines 459-464: fmt.Sprintf("%s/%s/%s:%s", registryUrl, project, imageName, timestamp)
TargetImage(registryUrl, project, localImageName, t) ==
    LET localImageParts == Split(localImageName, ":")
        localImageRepo == localImageParts[1]
        repoParts == Split(localImageRepo, "/")
        imageName == repoParts[Len(repoParts)]
    IN  registryUrl \o <<"/">> \o project \o <<"/">> \o imageName \o <<":">>
          \o FormatTimestamp(t)

(***************************************************************************)
(* Folding a fetched snapshot into the record.                             *)
(***************************************************************************)
\* readSnapshot, lines 586-603
RefreshFrom(d, s) ==
    [d EXCEPT !.name = s.name, !.cpu = s.cpu, !.gpu = s.gpu, !.memory = s.mem,
              !.disk = s.disk, !.createdAt = FormatRFC3339(s.createdAt),
              !.organizationId = IF s.org # <<>> THEN s.org[1] ELSE @,
              !.remoteImageName = IF s.image # <<>> THEN s.image[1] ELSE @,
              !.size = IF s.size # <<>> THEN s.size[1] ELSE @]

\* the record filled with the id only, its other fields left as planned
PopulateFrom_IdOnly(d, s) == [d EXCEPT !.id = s.id]

\* createSnapshot, lines 371-387
PopulateFrom(d, s) == [RefreshFrom(d, s) EXCEPT !.id = s.id]

\* the imported record taking the remote image reference as its local one
ImportedFrom_RemoteAsLocalImage(s) ==
    [id |-> s.id, name |-> s.name,
     imageName |-> IF s.image # <<>> THEN s.image[1] ELSE EmptyString,
     remoteImageName |-> IF s.image # <<>> THEN s.image[1] ELSE NullRef,
     organizationId |-> IF s.org # <<>> THEN s.org[1] ELSE NullString,
     size |-> IF s.size # <<>> THEN s.size[1] ELSE NullInt,
     cpu |-> s.cpu, gpu |-> s.gpu, memory |-> s.mem, disk |-> s.disk,
     createdAt |-> FormatRFC3339(s.createdAt), keepRemotely |-> FALSE]

\* ImportState, lines 303-321
ImportedFrom(s) ==
    [id |-> s.id, name |-> s.name, imageName |-> EmptyString,
     remoteImageName |-> IF s.image # <<>> THEN s.image[1] ELSE NullRef,
     organizationId |-> IF s.org # <<>> THEN s.org[1] ELSE NullString,
     size |-> IF s.size # <<>> THEN s.size[1] ELSE NullInt,
     cpu |-> s.cpu, gpu |-> s.gpu, memory |-> s.mem, disk |-> s.disk,
     createdAt |-> FormatRFC3339(s.createdAt), keepRemotely |-> FALSE]

\* shouldRecreate without its comparison of disk
shouldRecreate_IgnoringDisk(d, sd) ==
    \/ /\ d.imageName # sd.imageName
       /\ ~(sd.imageName = EmptyString /\ d.imageName # EmptyString)
    \/ d.name # sd.name
    \/ d.cpu # sd.cpu
    \/ d.memory # sd.memory

\* shouldRecreate without the exception for a record that was imported
shouldRecreate_NoImportException(d, sd) ==
    \/ d.imageName # sd.imageName
    \/ d.name # sd.name
    \/ d.cpu # sd.cpu
    \/ d.memory # sd.memory
    \/ d.disk # sd.disk

\* Update, lines 204-211
shouldRecreate(d, sd) ==
    \/ /\ d.imageName # sd.imageName
       /\ ~(sd.imageName = EmptyString /\ d.imageName # EmptyString)
    \/ d.name # sd.name
    \/ d.cpu # sd.cpu
    \/ d.memory # sd.memory
    \/ d.disk # sd.disk

(***************************************************************************)
(* State                                                                   *)
(***************************************************************************)
VARIABLES
    op,          \* the handler invoked: Create, Read, Update, Delete, ImportState
    pc,          \* where the invocation stands
    plan,        \* the desired record the handler read from req.Plan
    data,        \* the handler's record (plan or state), as the phases update it
    stateData,   \* the prior record the handler read from req.State
    tfstate,     \* the persisted state (resp.State)
    diags,       \* resp.Diagnostics
    warns,       \* createSnapshot's named result warns
    errs,        \* createSnapshot's named result errs
    warnings,    \* createSnapshot's local variable warnings
    mcWarns,     \* maybeCleanupExistingCreationAttempt's named result warns
    existingId,  \* existingSnapshot.Id of the reconciler
    targetImage, \* pushImageToRegistry's named result targetImage
    snapshot,    \* the record ensureSnapshotAvailable returned
    polls,       \* not-ready answers the running polling loop has seen
    cancelled,   \* ctx.Done() is closed
    remote,      \* the platform's snapshots, by id
    tags,        \* references tagged in the local container engine
    calls,       \* remote and engine calls the invocation issued, in order
    pubNow,      \* publisher specification: the clock, in ticks
    pubRefs,     \* publisher specification: the publish calls made
    peer         \* concurrency specification: a second Create of the same name

handlerVars == <<op, pc, plan, data, stateData, tfstate, diags>>
createVars == <<warns, errs, warnings, mcWarns, existingId, targetImage, snapshot>>
envVars == <<cancelled, remote, tags>>
pubVars == <<pubNow, pubRefs>>
auxVars == <<pubVars, peer>>
vars == <<handlerVars, createVars, envVars, polls, calls, auxVars>>

\* an entry of calls: the phase that issued the call, the call, its argument
\* (a name or id, or an image reference), its answer and, for a fetch that
\* succeeded, the state of the snapshot fetched
Call(phase, api, arg, ref, status) ==
    [phase |-> phase, api |-> api, arg |-> arg, ref |-> ref, status |-> status,
     state |-> ""]

Fetch(phase, key, res) ==
    [Call(phase, "GetSnapshot", key, <<>>, res.status)
        EXCEPT !.state = IF res.status = "ok" THEN res.snap.state ELSE ""]

EngineCall(phase, api, ref, ok) ==
    Call(phase, api, "", ref, IF ok THEN "ok" ELSE "err")

Clock == 0..MaxClock

(***************************************************************************)
(* Initial states: nothing persisted and possibly a leftover snapshot      *)
(* named n1 (active, or failed with a reason), or a record persisted by an *)
(* earlier Create or ImportState whose snapshot s1 is active or was        *)
(* removed out of band.                                                    *)
(***************************************************************************)
OldRef == TargetImage(RegistryUrl, Project, ImgA, 0)

OldSnapshot(st) ==
    [id |-> "s1", name |-> "n1", state |-> st, cpu |-> 1, gpu |-> 0, mem |-> 1,
     disk |-> 3, createdAt |-> 0, org |-> <<"o1">>, image |-> <<OldRef>>,
     size |-> <<5>>, reason |-> IF st = "error" THEN <<"r0">> ELSE <<>>]

CreatedRecord(keep) ==
    PopulateFrom(Model(UnknownString, "n1", ImgA, 1, 1, 3, keep), OldSnapshot("active"))

ImportedRecord(keep) ==
    [ImportedFrom(OldSnapshot("active")) EXCEPT !.keepRemotely = keep]

PriorRecords == {CreatedRecord(k) : k \in BOOLEAN} \cup {ImportedRecord(k) : k \in BOOLEAN}

\* cpu, memory and disk of a plan
Profiles == {<<1, 1, 3>>, <<2, 1, 3>>, <<1, 2, 4>>}

Plans(ids) ==
    {Model(i, n, img, p[1], p[2], p[3], k) :
        i \in ids, n \in Names, img \in LocalImages, p \in Profiles, k \in BOOLEAN}

Init ==
    /\ op = "none"
    /\ pc = "idle"
    /\ plan = NoRecord
    /\ data = NoRecord
    /\ stateData = NoRecord
    /\ \/ /\ tfstate = NoRecord
          /\ \E st \in {"gone", "active", "error"} :
                remote = [i \in SnapIds |->
                    IF i = "s1"
                      THEN IF st = "gone" THEN NoSnapshot("gone") ELSE OldSnapshot(st)
                      ELSE NoSnapshot("unused")]
       \/ /\ tfstate \in PriorRecords
          /\ \E st \in {"gone", "active"} :
                remote = [i \in SnapIds |->
                    IF i = "s1"
                      THEN IF st = "gone" THEN NoSnapshot("gone") ELSE OldSnapshot(st)
                      ELSE NoSnapshot("unused")]
    /\ diags = <<>>
    /\ warns = <<>>
    /\ errs = <<>>
    /\ warnings = <<>>
    /\ mcWarns = <<>>
    /\ existingId = ""
    /\ targetImage = EmptyString
    /\ snapshot = NoSnapshot("gone")
    /\ polls = 0
    /\ cancelled = FALSE
    /\ tags = {}
    /\ calls = <<>>
    /\ pubNow = 0
    /\ pubRefs = <<>>
    /\ peer = NoPeer

(***************************************************************************)
(* The environment: the request context, and the platform's asynchronous   *)
(* build and removal.                                                      *)
(***************************************************************************)
Running == pc \notin {"idle", "done"}

\* the deadline passes or the caller cancels: ctx.Done() is closed from now on
Cancel ==
    /\ Running
    /\ ~cancelled
    /\ cancelled' = TRUE
    /\ UNCHANGED <<handlerVars, createVars, remote, tags, polls, calls, auxVars>>

\* the platform finishes processing a snapshot
RemoteBuild ==
    /\ Running
    /\ \E i \in SnapIds, st \in TerminalStates, why \in {<<>>, <<"r1">>} :
          /\ remote[i].state \in InProgressStates
          /\ st = "active" => why = <<>>
          /\ remote' = [remote EXCEPT ![i].state = st, ![i].reason = why,
                                      ![i].size = IF st = "active" THEN <<7>> ELSE @]
    /\ UNCHANGED <<handlerVars, createVars, cancelled, tags, polls, calls, auxVars>>

\* the platform finishes removing a snapshot
RemoteRemoved ==
    /\ Running
    /\ \E i \in SnapIds :
          /\ remote[i].state = "removing"
          /\ remote' = [remote EXCEPT ![i] = NoSnapshot("gone")]
    /\ UNCHANGED <<handlerVars, createVars, cancelled, tags, polls, calls, auxVars>>

(***************************************************************************)
(* deleteSnapshot, lines 608-642, and what its callers do with its result  *)
(* (Delete, lines 275-279; Update, lines 215-221).                         *)
(***************************************************************************)
deleteSnapshotReturns(errors) ==
    /\ diags' = diags \o errors
    /\ pc' = IF op = "Update" /\ ~HasError(diags \o errors) THEN "mc_get" ELSE "done"
    /\ polls' = 0
    /\ UNCHANGED <<op, plan, data, stateData, tfstate>>

\* lines 609-618: the RemoveSnapshot call
deleteSnapshot_Remove ==
    /\ pc = "ds_remove"
    /\ \E res \in RemoveSnapshot(remote, stateData.id) :
          /\ calls' = Append(calls, Call("delete", "RemoveSnapshot", stateData.id, <<>>, res.status))
          /\ remote' = res.remote
          /\ CASE res.status = "404" -> deleteSnapshotReturns(<<>>)
               [] res.status = "err" ->
                    deleteSnapshotReturns(AddError(<<>>, "Client Error",
                        "Unable to delete snapshot", ""))
               [] OTHER ->
                    /\ pc' = "ds_loop"
                    /\ polls' = 0
                    /\ UNCHANGED <<op, plan, data, stateData, tfstate, diags>>
    /\ UNCHANGED <<createVars, cancelled, tags, auxVars>>

\* the cancelled loop returning without an error
deleteSnapshot_CancelledSilently ==
    /\ pc = "ds_loop"
    /\ cancelled
    /\ deleteSnapshotReturns(<<>>)
    /\ UNCHANGED <<createVars, envVars, calls, auxVars>>

\* lines 622-624: the loop finds ctx.Done() closed
deleteSnapshot_Cancelled ==
    /\ pc = "ds_loop"
    /\ cancelled
    /\ deleteSnapshotReturns(AddError(<<>>, "Deletion Error",
           "Cancelled while waiting for snapshot deletion", ""))
    /\ UNCHANGED <<createVars, envVars, calls, auxVars>>

\* the loop giving up with an error once it has fetched MaxPolls times in vain
deleteSnapshot_Poll_GivingUp ==
    /\ pc = "ds_loop"
    /\ ~cancelled
    /\ \E res \in GetSnapshot(remote, stateData.id) :
          /\ calls' = Append(calls, Fetch("delete", stateData.id, res))
          /\ CASE res.status = "404" -> deleteSnapshotReturns(<<>>)
               [] res.status = "err" ->
                    deleteSnapshotReturns(AddError(<<>>, "Deletion Verification Error",
                        "Unable to verify snapshot deletion", ""))
               [] res.status = "ok" /\ polls < MaxPolls ->
                    /\ polls' = polls + 1
                    /\ UNCHANGED handlerVars
               [] OTHER ->
                    deleteSnapshotReturns(AddError(<<>>, "Deletion Verification Error",
                        "Gave up waiting for snapshot deletion", ""))
    /\ UNCHANGED <<createVars, envVars, auxVars>>

\* the loop retrying after a fetch that failed, as the reconciler's loop does
deleteSnapshot_Poll_RetryingOnFailure ==
    /\ pc = "ds_loop"
    /\ ~cancelled
    /\ \E res \in GetSnapshot(remote, stateData.id) :
          /\ calls' = Append(calls, Fetch("delete", stateData.id, res))
          /\ CASE res.status = "404" -> deleteSnapshotReturns(<<>>)
               [] OTHER ->
                    /\ polls < MaxPolls
                    /\ polls' = polls + 1
                    /\ UNCHANGED handlerVars
    /\ UNCHANGED <<createVars, envVars, auxVars>>

\* lines 625-640: one fetch of the loop, then the sleep
deleteSnapshot_Poll ==
    /\ pc = "ds_loop"
    /\ ~cancelled
    /\ \E res \in GetSnapshot(remote, stateData.id) :
          /\ calls' = Append(calls, Fetch("delete", stateData.id, res))
          /\ CASE res.status = "404" -> deleteSnapshotReturns(<<>>)
               [] res.status = "err" ->
                    deleteSnapshotReturns(AddError(<<>>, "Deletion Verification Error",
                        "Unable to verify snapshot deletion", ""))
               [] OTHER ->
                    /\ polls < MaxPolls
                    /\ polls' = polls + 1
                    /\ UNCHANGED handlerVars
    /\ UNCHANGED <<createVars, envVars, auxVars>>

(***************************************************************************)
(* Delete, lines 259-280                                                   *)
(***************************************************************************)
\* Delete without the keepRemotely test of line 267
Delete_IgnoringKeep ==
    /\ pc = "idle"
    /\ tfstate # NoRecord
    /\ op' = "Delete"
    /\ data' = tfstate
    /\ stateData' = tfstate
    /\ pc' = "ds_remove"
    /\ UNCHANGED <<plan, tfstate, diags, createVars, envVars, polls, calls, auxVars>>

Delete ==
    /\ pc = "idle"
    /\ tfstate # NoRecord
    /\ op' = "Delete"
    /\ data' = tfstate
    /\ stateData' = tfstate
    /\ pc' = IF tfstate.keepRemotely THEN "done" ELSE "ds_remove"
    /\ UNCHANGED <<plan, tfstate, diags, createVars, envVars, polls, calls, auxVars>>

(***************************************************************************)
(* readSnapshot, lines 574-606: the record and the errors it returns for   *)
(* an answer of GetSnapshot                                                *)
(***************************************************************************)
\* readSnapshot treating a not-found answer as any other failed fetch
readSnapshot_NotFoundIsError(d, res) ==
    CASE res.status # "ok" ->
           [data |-> d,
            errors |-> AddError(<<>>, "Client Error", "Unable to read snapshot", "")]
      [] OTHER -> [data |-> RefreshFrom(d, res.snap), errors |-> <<>>]

readSnapshot(d, res) ==
    CASE res.status = "404" -> [data |-> d, errors |-> <<>>]
      [] res.status = "err" ->
           [data |-> d,
            errors |-> AddError(<<>>, "Client Error", "Unable to read snapshot", "")]
      [] OTHER -> [data |-> RefreshFrom(d, res.snap), errors |-> <<>>]

\* Read, lines 175-192
Read ==
    /\ pc = "idle"
    /\ tfstate # NoRecord
    /\ op' = "Read"
    /\ stateData' = tfstate
    /\ \E res \in GetSnapshot(remote, tfstate.id) :
          LET out == readSnapshot(tfstate, res)
          IN  /\ calls' = Append(calls, Fetch("read", tfstate.id, res))
              /\ data' = out.data
              /\ diags' = diags \o out.errors
              /\ tfstate' = IF HasError(diags \o out.errors) THEN tfstate ELSE out.data
    /\ pc' = "done"
    /\ UNCHANGED <<plan, createVars, envVars, polls, auxVars>>

\* ImportState reporting a not-found answer as any other failed fetch
ImportState_NotFoundAsImportError ==
    /\ pc = "idle"
    /\ tfstate = NoRecord
    /\ op' = "ImportState"
    /\ \E snapshotID \in Names \cup SnapIds :
         \E res \in GetSnapshot(remote, snapshotID) :
          /\ calls' = Append(calls, Fetch("import", snapshotID, res))
          /\ IF res.status # "ok"
               THEN /\ diags' = AddError(diags, "Import Error", "Unable to fetch snapshot",
                                         snapshotID)
                    /\ UNCHANGED <<data, tfstate>>
               ELSE /\ data' = ImportedFrom(res.snap)
                    /\ tfstate' = ImportedFrom(res.snap)
                    /\ UNCHANGED diags
    /\ pc' = "done"
    /\ UNCHANGED <<plan, stateData, createVars, envVars, polls, auxVars>>

\* ImportState, lines 282-324
ImportState ==
    /\ pc = "idle"
    /\ tfstate = NoRecord
    /\ op' = "ImportState"
    /\ \E snapshotID \in Names \cup SnapIds :
         \E res \in GetSnapshot(remote, snapshotID) :
          /\ calls' = Append(calls, Fetch("import", snapshotID, res))
          /\ CASE res.status = "404" ->
                    /\ diags' = AddError(diags, "Snapshot Not Found", "not found", snapshotID)
                    /\ UNCHANGED <<data, tfstate>>
               [] res.status = "err" ->
                    /\ diags' = AddError(diags, "Import Error", "Unable to fetch snapshot",
                                         snapshotID)
                    /\ UNCHANGED <<data, tfstate>>
               [] OTHER ->
                    /\ data' = ImportedFrom(res.snap)
                    /\ tfstate' = ImportedFrom(res.snap)
                    /\ UNCHANGED diags
    /\ pc' = "done"
    /\ UNCHANGED <<plan, stateData, createVars, envVars, polls, auxVars>>

(***************************************************************************)
(* Update, lines 194-257                                                   *)
(***************************************************************************)
\* lines 239-245: fields the plan left unknown are carried over
CarryOver(d, sd) ==
    [d EXCEPT !.id = IF @ = UnknownString THEN sd.id ELSE @,
              !.name = IF @ = UnknownString THEN sd.name ELSE @]

Update ==
    /\ pc = "idle"
    /\ tfstate # NoRecord
    /\ op' = "Update"
    /\ stateData' = tfstate
    /\ \E p \in Plans({UnknownString}) :
          /\ plan' = p
          /\ IF shouldRecreate(p, tfstate)
               THEN /\ data' = p
                    /\ pc' = IF ~p.keepRemotely THEN "ds_remove" ELSE "mc_get"
                    /\ UNCHANGED <<tfstate, diags, calls>>
               ELSE \E res \in GetSnapshot(remote, CarryOver(p, tfstate).id) :
                      LET out == readSnapshot(CarryOver(p, tfstate), res)
                      IN  /\ calls' = Append(calls,
                                 Fetch("read", CarryOver(p, tfstate).id, res))
                          /\ data' = out.data
                          /\ diags' = diags \o out.errors
                          /\ tfstate' = IF HasError(diags \o out.errors)
                                          THEN tfstate ELSE out.data
                          /\ pc' = "done"
    /\ UNCHANGED <<createVars, envVars, polls, auxVars>>

(***************************************************************************)
(* createSnapshot, lines 326-390, and what its callers do with its result  *)
(* (Create, lines 164-172; Update, lines 229-237).                         *)
(***************************************************************************)
\* the handler persisting the record whatever createSnapshot returned
createSnapshotReturns_AlwaysPersists(w, e, d) ==
    /\ warns' = w
    /\ errs' = e
    /\ data' = d
    /\ diags' = diags \o w \o e
    /\ tfstate' = d
    /\ pc' = "done"
    /\ UNCHANGED <<op, plan, stateData>>

\* createSnapshot returns warns w and errs e with the record d; the handler
\* appends them and persists the record unless an error is present
createSnapshotReturns(w, e, d) ==
    /\ warns' = w
    /\ errs' = e
    /\ data' = d
    /\ diags' = diags \o w \o e
    /\ tfstate' = IF HasError(diags \o w \o e) THEN tfstate ELSE d
    /\ pc' = "done"
    /\ UNCHANGED <<op, plan, stateData>>

\* createSnapshot goes on to its next phase
createSnapshotContinues(next, w) ==
    /\ warns' = w
    /\ pc' = next
    /\ UNCHANGED <<op, plan, data, stateData, tfstate, diags, errs>>

\* Create, lines 156-164: the plan is read and createSnapshot starts
Create ==
    /\ pc = "idle"
    /\ tfstate = NoRecord
    /\ op' = "Create"
    /\ \E p \in Plans({UnknownString}) :
          /\ plan' = p
          /\ data' = p
    /\ pc' = "mc_get"
    /\ UNCHANGED <<stateData, tfstate, diags, createVars, envVars, polls, calls, auxVars>>

(***************************************************************************)
(* maybeCleanupExistingCreationAttempt, lines 392-431, called at line 327  *)
(***************************************************************************)
\* lines 393-408: the lookup by name
maybeCleanupExistingCreationAttempt_Get ==
    /\ pc = "mc_get"
    /\ \E res \in GetSnapshot(remote, data.name) :
          /\ calls' = Append(calls, Fetch("reconcile", data.name, res))
          /\ CASE res.status = "404" ->
                    /\ createSnapshotContinues("cs_docker", warns)
                    /\ warnings' = <<>>
                    /\ UNCHANGED existingId
               [] res.status = "err" ->
                    /\ createSnapshotReturns(warns,
                          AddError(errs, "Snapshot Check",
                                   "Unable to check for if snapshot exists", ""), data)
                    /\ warnings' = <<>>
                    /\ UNCHANGED existingId
               [] OTHER ->
                    /\ existingId' = res.snap.id
                    /\ pc' = "mc_remove"
                    /\ UNCHANGED <<op, plan, data, stateData, tfstate, diags, warns, errs,
                                   warnings>>
    /\ UNCHANGED <<mcWarns, targetImage, snapshot, envVars, polls, auxVars>>

\* lines 410-413: the removal of the snapshot found; its failure is a warning
maybeCleanupExistingCreationAttempt_Remove ==
    /\ pc = "mc_remove"
    /\ \E res \in RemoveSnapshot(remote, existingId) :
          /\ calls' = Append(calls, Call("reconcile", "RemoveSnapshot", existingId, <<>>, res.status))
          /\ remote' = res.remote
          /\ mcWarns' = IF res.status # "ok"
                          THEN AddWarning(mcWarns, "Cleanup Warning",
                                   "Failed to delete existing failed snapshot", data.name)
                          ELSE mcWarns
    /\ pc' = "mc_loop"
    /\ polls' = 0
    /\ UNCHANGED <<op, plan, data, stateData, tfstate, diags, warns, errs, warnings,
                   existingId, targetImage, snapshot, cancelled, tags, auxVars>>

\* lines 416-418: the loop finds ctx.Done() closed and returns its warnings only
maybeCleanupExistingCreationAttempt_Cancelled ==
    /\ pc = "mc_loop"
    /\ cancelled
    /\ createSnapshotContinues("cs_docker", warns \o mcWarns)
    /\ warnings' = mcWarns
    /\ polls' = 0
    /\ UNCHANGED <<mcWarns, existingId, targetImage, snapshot, envVars, calls, auxVars>>

\* lines 419-429: one fetch by id of the loop, then the sleep
maybeCleanupExistingCreationAttempt_Poll ==
    /\ pc = "mc_loop"
    /\ ~cancelled
    /\ \E res \in GetSnapshot(remote, existingId) :
          /\ calls' = Append(calls, Fetch("reconcile", existingId, res))
          /\ IF res.status = "404"
               THEN /\ createSnapshotContinues("cs_docker", warns \o mcWarns)
                    /\ warnings' = mcWarns
                    /\ polls' = 0
               ELSE /\ polls < MaxPolls
                    /\ polls' = polls + 1
                    /\ UNCHANGED <<handlerVars, warns, errs, warnings>>
    /\ UNCHANGED <<mcWarns, existingId, targetImage, snapshot, envVars, auxVars>>

(***************************************************************************)
(* createSnapshot, lines 334-339: the container engine client              *)
(***************************************************************************)
createSnapshot_DockerClient ==
    /\ pc = "cs_docker"
    /\ \E ok \in BOOLEAN :
          IF ok
            THEN createSnapshotContinues("push_access", warns)
            ELSE createSnapshotReturns(warns,
                     AddError(errs, "Docker Client Error",
                              "Unable to create Docker client", ""), data)
    /\ UNCHANGED <<warnings, mcWarns, existingId, targetImage, snapshot, envVars,
                   polls, calls, auxVars>>

(***************************************************************************)
(* pushImageToRegistry, lines 433-505, called at line 341.  Every error    *)
(* return leaves createSnapshot at line 345, before its defer.             *)
(***************************************************************************)
pushFails(summary, detail) ==
    /\ createSnapshotReturns(warns, AddError(errs, summary, detail, ""), data)
    /\ warnings' = <<>>

\* lines 434-451: the transient credentials
pushImageToRegistry_Access ==
    /\ pc = "push_access"
    /\ \E ok \in BOOLEAN :
          /\ calls' = Append(calls, EngineCall("publish", "GetTransientPushAccess", <<>>, ok))
          /\ IF ok
            THEN /\ createSnapshotContinues("push_inspect", warns)
                 /\ UNCHANGED warnings
            ELSE pushFails("API Error", "Unable to get push access token")
    /\ UNCHANGED <<mcWarns, existingId, targetImage, snapshot, envVars, polls, auxVars>>

\* lines 453-457: the local image must exist
pushImageToRegistry_Inspect ==
    /\ pc = "push_inspect"
    /\ \E ok \in BOOLEAN :
          /\ calls' = Append(calls, EngineCall("publish", "ImageInspect", data.imageName, ok))
          /\ IF ok
            THEN /\ createSnapshotContinues("push_tag", warns)
                 /\ UNCHANGED warnings
            ELSE pushFails("Image Not Found", "Local image not found")
    /\ UNCHANGED <<mcWarns, existingId, targetImage, snapshot, envVars, polls, auxVars>>

\* lines 459-470: the target reference is computed and the image tagged
pushImageToRegistry_Tag ==
    /\ pc = "push_tag"
    /\ \E t \in Clock, ok \in BOOLEAN :
          LET target == TargetImage(RegistryUrl, Project, data.imageName, t)
          IN  /\ targetImage' = target
              /\ calls' = Append(calls, EngineCall("publish", "ImageTag", target, ok))
              /\ IF ok
                   THEN /\ tags' = tags \cup {target}
                        /\ createSnapshotContinues("push_push", warns)
                        /\ UNCHANGED warnings
                   ELSE /\ pushFails("Tag Error", "Unable to tag image")
                        /\ UNCHANGED tags
    /\ UNCHANGED <<mcWarns, existingId, snapshot, cancelled, remote, polls, auxVars>>

\* lines 472-485: the push and the drain of its output
pushImageToRegistry_Push ==
    /\ pc = "push_push"
    /\ \E ok \in BOOLEAN :
          /\ calls' = Append(calls, EngineCall("publish", "ImagePush", targetImage, ok))
          /\ IF ok
            THEN /\ createSnapshotContinues("push_loop", warns)
                 /\ UNCHANGED warnings
            ELSE pushFails("Push Error", "Unable to push image")
    /\ polls' = 0
    /\ UNCHANGED <<mcWarns, existingId, targetImage, snapshot, envVars, auxVars>>

\* lines 488-491: the manifest loop finds ctx.Done() closed
pushImageToRegistry_Cancelled ==
    /\ pc = "push_loop"
    /\ cancelled
    /\ pushFails("Image Availability Error",
                 "Cancelled during waiting for image to become available")
    /\ polls' = 0
    /\ UNCHANGED <<mcWarns, existingId, targetImage, snapshot, envVars, calls, auxVars>>

\* lines 492-502: one manifest inspection, then the sleep; on success
\* pushImageToRegistry returns and createSnapshot registers its defer (350)
pushImageToRegistry_Poll ==
    /\ pc = "push_loop"
    /\ ~cancelled
    /\ \E ok \in BOOLEAN :
          /\ calls' = Append(calls, EngineCall("publish", "DistributionInspect", targetImage, ok))
          /\ IF ok
            THEN /\ createSnapshotContinues("register", warns)
                 /\ warnings' = <<>>
                 /\ polls' = 0
            ELSE /\ polls < MaxPolls
                 /\ polls' = polls + 1
                 /\ UNCHANGED <<handlerVars, warns, errs, warnings>>
    /\ UNCHANGED <<mcWarns, existingId, targetImage, snapshot, envVars, auxVars>>

(***************************************************************************)
(* registerSnapshot, lines 507-536, called at line 357 with the defer of   *)
(* line 350 pending                                                        *)
(***************************************************************************)
\* the request carrying the local image name instead of the target reference
CreateRequest_LocalImage(d, target) ==
    [name |-> d.name, imageName |-> d.imageName,
     cpu |-> IF d.cpu # NullInt THEN d.cpu ELSE NullInt,
     memory |-> IF d.memory # NullInt THEN d.memory ELSE NullInt,
     disk |-> IF d.disk # NullInt THEN d.disk ELSE NullInt]

\* lines 508-524: the request; a null profile field is left out
CreateRequest(d, target) ==
    [name |-> d.name, imageName |-> target,
     cpu |-> IF d.cpu # NullInt THEN d.cpu ELSE NullInt,
     memory |-> IF d.memory # NullInt THEN d.memory ELSE NullInt,
     disk |-> IF d.disk # NullInt THEN d.disk ELSE NullInt]

\* registerSnapshot submitting its request again after a failure
registerSnapshot_Resubmitting ==
    /\ pc = "register"
    /\ \E res \in CreateSnapshot(remote, CreateRequest(data, targetImage), MaxClock) :
          /\ calls' = Append(calls, Call("register", "CreateSnapshot", data.name,
                                         targetImage, res.status))
          /\ remote' = res.remote
          /\ CASE res.status = "ok" ->
                    /\ pc' = "ensure"
                    /\ polls' = 0
                    /\ UNCHANGED errs
               [] res.status # "ok" /\ polls < MaxPolls ->
                    /\ pc' = "register"
                    /\ polls' = polls + 1
                    /\ UNCHANGED errs
               [] OTHER ->
                    /\ pc' = "cs_defer"
                    /\ polls' = 0
                    /\ errs' = AddError(errs, "Client Error", "Unable to create snapshot", "")
    /\ warnings' = <<>>
    /\ UNCHANGED <<op, plan, data, stateData, tfstate, diags, warns, mcWarns, existingId,
                   targetImage, snapshot, cancelled, tags, auxVars>>

\* createSnapshot going on to the poller whatever registerSnapshot returned
registerSnapshot_IgnoringFailure ==
    /\ pc = "register"
    /\ \E res \in CreateSnapshot(remote, CreateRequest(data, targetImage), MaxClock) :
          /\ calls' = Append(calls, Call("register", "CreateSnapshot", data.name,
                                         targetImage, res.status))
          /\ remote' = res.remote
          /\ pc' = "ensure"
          /\ errs' = IF res.status = "ok"
                        THEN errs
                        ELSE AddError(errs, "Client Error", "Unable to create snapshot", "")
    /\ warnings' = <<>>
    /\ polls' = 0
    /\ UNCHANGED <<op, plan, data, stateData, tfstate, diags, warns, mcWarns, existingId,
                   targetImage, snapshot, cancelled, tags, auxVars>>

registerSnapshot ==
    /\ pc = "register"
    /\ \E res \in CreateSnapshot(remote, CreateRequest(data, targetImage), MaxClock) :
          /\ calls' = Append(calls, Call("register", "CreateSnapshot", data.name,
                                         targetImage, res.status))
          /\ remote' = res.remote
          /\ IF res.status = "ok"
               THEN /\ pc' = "ensure"
                    /\ UNCHANGED errs
               ELSE /\ pc' = "cs_defer"
                    /\ errs' = AddError(errs, "Client Error", "Unable to create snapshot", "")
    /\ warnings' = <<>>
    /\ polls' = 0
    /\ UNCHANGED <<op, plan, data, stateData, tfstate, diags, warns, mcWarns, existingId,
                   targetImage, snapshot, cancelled, tags, auxVars>>

(***************************************************************************)
(* ensureSnapshotAvailable, lines 538-572, called at line 364              *)
(***************************************************************************)
\* lines 541-543: the loop finds ctx.Done() closed
ensureSnapshotAvailable_Cancelled ==
    /\ pc = "ensure"
    /\ cancelled
    /\ errs' = AddError(errs, "Snapshot Availability Error",
                   "Cancelled during waiting for snapshot to become available", "")
    /\ pc' = "cs_defer"
    /\ polls' = 0
    /\ UNCHANGED <<op, plan, data, stateData, tfstate, diags, warns, warnings, mcWarns,
                   existingId, targetImage, snapshot, envVars, calls, auxVars>>

\* the switch without its build_failed case
Availability_MissingBuildFailed(snap) ==
    CASE snap.state = "active" -> "available"
      [] snap.state = "error" -> "failed"
      [] OTHER -> "wait"

\* lines 556-566: what a fetched state means to the poller
Availability(snap) ==
    CASE snap.state = "active" -> "available"
      [] snap.state \in {"error", "build_failed"} -> "failed"
      [] OTHER -> "wait"

\* lines 559-565: the error of a failed snapshot
FailureDiag(snap) ==
    IF snap.reason = <<>>
      THEN Diag("error", "Snapshot Availability Error",
                "Snapshot processing failed with unknown reason", "")
      ELSE Diag("error", "Snapshot Availability Error",
                "Snapshot processing failed", snap.reason[1])

\* the poller taking a not-found answer for not ready yet and fetching again
ensureSnapshotAvailable_Poll_RetryingNotFound ==
    /\ pc = "ensure"
    /\ ~cancelled
    /\ \E res \in GetSnapshot(remote, data.name) :
          /\ calls' = Append(calls, Fetch("poll", data.name, res))
          /\ CASE res.status = "err" ->
                    /\ errs' = AddError(errs, "Snapshot Availability Error",
                                        "Unable to fetch snapshot", "")
                    /\ pc' = "cs_defer"
                    /\ polls' = 0
                    /\ UNCHANGED <<data, snapshot>>
               [] res.status = "ok" /\ Availability(res.snap) = "available" ->
                    /\ snapshot' = res.snap
                    /\ data' = PopulateFrom(data, res.snap)
                    /\ pc' = "cs_defer"
                    /\ polls' = 0
                    /\ UNCHANGED errs
               [] res.status = "ok" /\ Availability(res.snap) = "failed" ->
                    /\ snapshot' = res.snap
                    /\ errs' = Append(errs, FailureDiag(res.snap))
                    /\ pc' = "cs_defer"
                    /\ polls' = 0
                    /\ UNCHANGED data
               [] OTHER ->
                    /\ polls < MaxPolls
                    /\ polls' = polls + 1
                    /\ UNCHANGED <<pc, data, errs, snapshot>>
    /\ UNCHANGED <<op, plan, stateData, tfstate, diags, warns, warnings, mcWarns, existingId,
                   targetImage, envVars, auxVars>>

\* lines 544-570: one fetch by name of the loop, then the sleep; on success
\* createSnapshot fills the record (371-387)
ensureSnapshotAvailable_Poll ==
    /\ pc = "ensure"
    /\ ~cancelled
    /\ \E res \in GetSnapshot(remote, data.name) :
          /\ calls' = Append(calls, Fetch("poll", data.name, res))
          /\ CASE res.status # "ok" ->
                    /\ errs' = AddError(errs, "Snapshot Availability Error",
                                        "Unable to fetch snapshot", "")
                    /\ pc' = "cs_defer"
                    /\ polls' = 0
                    /\ UNCHANGED <<data, snapshot>>
               [] res.status = "ok" /\ Availability(res.snap) = "available" ->
                    /\ snapshot' = res.snap
                    /\ data' = PopulateFrom(data, res.snap)
                    /\ pc' = "cs_defer"
                    /\ polls' = 0
                    /\ UNCHANGED errs
               [] res.status = "ok" /\ Availability(res.snap) = "failed" ->
                    /\ snapshot' = res.snap
                    /\ errs' = Append(errs, FailureDiag(res.snap))
                    /\ pc' = "cs_defer"
                    /\ polls' = 0
                    /\ UNCHANGED data
               [] OTHER ->
                    /\ polls < MaxPolls
                    /\ polls' = polls + 1
                    /\ snapshot' = res.snap
                    /\ UNCHANGED <<pc, data, errs>>
    /\ UNCHANGED <<op, plan, stateData, tfstate, diags, warns, warnings, mcWarns, existingId,
                   targetImage, envVars, auxVars>>

(***************************************************************************)
(* createSnapshot's deferred function, lines 350-355: it runs at every     *)
(* return after line 350 and adds its warning to the local warnings, which *)
(* is not the named result warns                                           *)
(***************************************************************************)
createSnapshot_Defer ==
    /\ pc = "cs_defer"
    /\ \E ok \in BOOLEAN :
          /\ calls' = Append(calls, EngineCall("cleanup", "ImageRemove", targetImage, ok))
          /\ IF ok
            THEN /\ tags' = tags \ {targetImage}
                 /\ UNCHANGED warnings
            ELSE /\ warnings' = AddWarning(warnings, "Cleanup Warning",
                                    "Failed to remove tagged image", "")
                 /\ UNCHANGED tags
    /\ createSnapshotReturns(warns, errs, data)
    /\ UNCHANGED <<mcWarns, existingId, targetImage, snapshot, cancelled, remote,
                   polls, auxVars>>

(***************************************************************************)
(* The specification of the handlers: one invocation against the platform. *)
(***************************************************************************)
Next ==
    \/ Create
    \/ Read
    \/ Update
    \/ Delete
    \/ ImportState
    \/ deleteSnapshot_Remove
    \/ deleteSnapshot_Cancelled
    \/ deleteSnapshot_Poll
    \/ maybeCleanupExistingCreationAttempt_Get
    \/ maybeCleanupExistingCreationAttempt_Remove
    \/ maybeCleanupExistingCreationAttempt_Cancelled
    \/ maybeCleanupExistingCreationAttempt_Poll
    \/ createSnapshot_DockerClient
    \/ pushImageToRegistry_Access
    \/ pushImageToRegistry_Inspect
    \/ pushImageToRegistry_Tag
    \/ pushImageToRegistry_Push
    \/ pushImageToRegistry_Cancelled
    \/ pushImageToRegistry_Poll
    \/ registerSnapshot
    \/ ensureSnapshotAvailable_Cancelled
    \/ ensureSnapshotAvailable_Poll
    \/ createSnapshot_Defer
    \/ Cancel
    \/ RemoteBuild
    \/ RemoteRemoved

Spec == Init /\ [][Next]_vars

(***************************************************************************)
(* The specification of the handlers under fair scheduling: the goroutine  *)
(* that runs the handler is never suspended for ever, and every call it    *)
(* makes returns, so that a handler that can take a step eventually takes  *)
(* one.  The context and the platform are under no such obligation.  The   *)
(* invocations start where every polling loop has something to wait for.   *)
(***************************************************************************)
HandlerStep ==
    \/ Create
    \/ Read
    \/ Update
    \/ Delete
    \/ ImportState
    \/ deleteSnapshot_Remove
    \/ deleteSnapshot_Cancelled
    \/ deleteSnapshot_Poll
    \/ maybeCleanupExistingCreationAttempt_Get
    \/ maybeCleanupExistingCreationAttempt_Remove
    \/ maybeCleanupExistingCreationAttempt_Cancelled
    \/ maybeCleanupExistingCreationAttempt_Poll
    \/ createSnapshot_DockerClient
    \/ pushImageToRegistry_Access
    \/ pushImageToRegistry_Inspect
    \/ pushImageToRegistry_Tag
    \/ pushImageToRegistry_Push
    \/ pushImageToRegistry_Cancelled
    \/ pushImageToRegistry_Poll
    \/ registerSnapshot
    \/ ensureSnapshotAvailable_Cancelled
    \/ ensureSnapshotAvailable_Poll
    \/ createSnapshot_Defer

\* nothing persisted and a leftover snapshot named n1, or the record of an
\* earlier Create whose snapshot is active
InitFair ==
    /\ Init
    /\ tfstate \in {NoRecord, CreatedRecord(FALSE)}
    /\ remote["s1"] = OldSnapshot("active")

FairSpec == InitFair /\ [][Next]_vars /\ WF_vars(HandlerStep)

(***************************************************************************)
(* The specification of the publisher's target reference: publish calls    *)
(* (lines 459-464) made while the wall clock advances.                     *)
(***************************************************************************)
Projects == {Project, <<"q">>}

\* the wall-clock second of a clock reading
WallSecond(t) == t \div TicksPerSecond

InitPublish ==
    /\ Init
    /\ tfstate = NoRecord
    /\ remote["s1"] = NoSnapshot("gone")

PublishTick ==
    /\ pubNow < MaxClock
    /\ pubNow' = pubNow + 1
    /\ UNCHANGED <<handlerVars, createVars, envVars, polls, calls, pubRefs, peer>>

Publish ==
    /\ Len(pubRefs) < MaxPublish
    /\ \E img \in LocalImages, proj \in Projects :
          pubRefs' = Append(pubRefs,
              [image |-> img, registryUrl |-> RegistryUrl, project |-> proj,
               at |-> pubNow,
               targetImage |-> TargetImage(RegistryUrl, proj, img, pubNow)])
    /\ UNCHANGED <<handlerVars, createVars, envVars, polls, calls, pubNow, peer>>

NextPublish ==
    \/ PublishTick
    \/ Publish

PublishSpec == InitPublish /\ [][NextPublish]_vars

(***************************************************************************)
(* The specification of a Create followed by a Read: Create returns with   *)
(* its record persisted (line 172) and the framework later invokes Read on *)
(* that record, with a new context.  The platform changes only while a     *)
(* handler runs, so nothing changes between the two invocations.           *)
(***************************************************************************)
InitRoundTrip ==
    /\ Init
    /\ tfstate = NoRecord

CreateReturned ==
    /\ pc = "done"
    /\ op = "Create"
    /\ tfstate # NoRecord
    /\ op' = "none"
    /\ pc' = "idle"
    /\ plan' = NoRecord
    /\ data' = NoRecord
    /\ stateData' = NoRecord
    /\ diags' = <<>>
    /\ warns' = <<>>
    /\ errs' = <<>>
    /\ warnings' = <<>>
    /\ mcWarns' = <<>>
    /\ existingId' = ""
    /\ targetImage' = EmptyString
    /\ snapshot' = NoSnapshot("gone")
    /\ polls' = 0
    /\ cancelled' = FALSE
    /\ calls' = <<>>
    /\ UNCHANGED <<tfstate, remote, tags, auxVars>>

NextRoundTrip ==
    \/ Create
    \/ maybeCleanupExistingCreationAttempt_Get
    \/ maybeCleanupExistingCreationAttempt_Remove
    \/ maybeCleanupExistingCreationAttempt_Cancelled
    \/ maybeCleanupExistingCreationAttempt_Poll
    \/ createSnapshot_DockerClient
    \/ pushImageToRegistry_Access
    \/ pushImageToRegistry_Inspect
    \/ pushImageToRegistry_Tag
    \/ pushImageToRegistry_Push
    \/ pushImageToRegistry_Cancelled
    \/ pushImageToRegistry_Poll
    \/ registerSnapshot
    \/ ensureSnapshotAvailable_Cancelled
    \/ ensureSnapshotAvailable_Poll
    \/ createSnapshot_Defer
    \/ Cancel
    \/ RemoteBuild
    \/ RemoteRemoved
    \/ CreateReturned
    \/ Read

RoundTripSpec == InitRoundTrip /\ [][NextRoundTrip]_vars

(***************************************************************************)
(* The specification of Update's decision (lines 204-211): one Update on a *)
(* record persisted by an earlier Create or ImportState of any name, image *)
(* and profile, whose snapshot is active or was removed out of band.       *)
(***************************************************************************)
PriorImages == LocalImages \cup {EmptyString}

PriorProfiles == {<<c, m, d>> : c \in {1, 2}, m \in {1, 2}, d \in {3, 4}}

PriorSnapshot(n, p) ==
    [OldSnapshot("active") EXCEPT !.name = n, !.cpu = p[1], !.mem = p[2], !.disk = p[3]]

PriorRecord(n, img, p, keep) ==
    IF img = EmptyString
      THEN [ImportedFrom(PriorSnapshot(n, p)) EXCEPT !.keepRemotely = keep]
      ELSE PopulateFrom(Model(UnknownString, n, img, p[1], p[2], p[3], keep),
                        PriorSnapshot(n, p))

InitDecision ==
    /\ op = "none"
    /\ pc = "idle"
    /\ plan = NoRecord
    /\ data = NoRecord
    /\ stateData = NoRecord
    /\ \E n \in Names, img \in PriorImages, p \in PriorProfiles, keep \in BOOLEAN :
          /\ tfstate = PriorRecord(n, img, p, keep)
          /\ \E there \in BOOLEAN :
                remote = [i \in SnapIds |->
                    IF i = "s1"
                      THEN IF there THEN PriorSnapshot(n, p) ELSE NoSnapshot("gone")
                      ELSE NoSnapshot("unused")]
    /\ diags = <<>>
    /\ warns = <<>>
    /\ errs = <<>>
    /\ warnings = <<>>
    /\ mcWarns = <<>>
    /\ existingId = ""
    /\ targetImage = EmptyString
    /\ snapshot = NoSnapshot("gone")
    /\ polls = 0
    /\ cancelled = FALSE
    /\ tags = {}
    /\ calls = <<>>
    /\ pubNow = 0
    /\ pubRefs = <<>>
    /\ peer = NoPeer

DecisionSpec == InitDecision /\ [][Update]_vars

(***************************************************************************)
(* The specification of two concurrent creations of one name: the Create   *)
(* of the handlers above and a second Create, by another process against   *)
(* the same platform, which starts with no snapshots. Nothing in the code  *)
(* synchronises the two. The second invocation runs the same createSnapshot *)
(* (lines 326-390); of its state the model keeps what reaches the platform: *)
(* its local publish phase is one step, and its context is never done.     *)
(***************************************************************************)
PeerPlan == Model(UnknownString, "n1", ImgA, 1, 1, 3, FALSE)

\* the reference the second invocation publishes (lines 459-464)
PeerTarget == TargetImage(RegistryUrl, Project, PeerPlan.imageName, 0)

InitConcurrent ==
    /\ op = "none"
    /\ pc = "idle"
    /\ plan = NoRecord
    /\ data = NoRecord
    /\ stateData = NoRecord
    /\ tfstate = NoRecord
    /\ remote = [i \in SnapIds |-> NoSnapshot("unused")]
    /\ diags = <<>>
    /\ warns = <<>>
    /\ errs = <<>>
    /\ warnings = <<>>
    /\ mcWarns = <<>>
    /\ existingId = ""
    /\ targetImage = EmptyString
    /\ snapshot = NoSnapshot("gone")
    /\ polls = 0
    /\ cancelled = FALSE
    /\ tags = {}
    /\ calls = <<>>
    /\ pubNow = 0
    /\ pubRefs = <<>>
    /\ peer = NoPeer

\* Create (lines 156-164) with a plan of the second invocation's name and
\* profile, of any local image
Create_SameName ==
    /\ Create
    /\ \E img \in LocalImages : plan' = [PeerPlan EXCEPT !.imageName = img]

PeerFrame == UNCHANGED <<handlerVars, createVars, cancelled, tags, polls, calls, pubVars>>

\* the second invocation's Create, lines 156-164
Peer_Create ==
    /\ peer.pc = "idle"
    /\ peer' = [peer EXCEPT !.pc = "mc_get"]
    /\ UNCHANGED remote
    /\ PeerFrame

\* its reconciler's lookup by name, lines 393-408
Peer_maybeCleanupExistingCreationAttempt_Get ==
    /\ peer.pc = "mc_get"
    /\ \E res \in GetSnapshot(remote, PeerPlan.name) :
          peer' = CASE res.status = "404" -> [peer EXCEPT !.pc = "publish"]
                    [] res.status = "err" -> [peer EXCEPT !.pc = "done", !.failed = TRUE]
                    [] OTHER -> [peer EXCEPT !.pc = "mc_remove",
                                             !.existingId = res.snap.id]
    /\ UNCHANGED remote
    /\ PeerFrame

\* its reconciler's removal, lines 410-413: a failure is a warning
Peer_maybeCleanupExistingCreationAttempt_Remove ==
    /\ peer.pc = "mc_remove"
    /\ \E res \in RemoveSnapshot(remote, peer.existingId) :
          remote' = res.remote
    /\ peer' = [peer EXCEPT !.pc = "mc_loop"]
    /\ PeerFrame

\* its reconciler's loop, lines 419-429: it goes on at a 404
Peer_maybeCleanupExistingCreationAttempt_Poll ==
    /\ peer.pc = "mc_loop"
    /\ \E res \in GetSnapshot(remote, peer.existingId) :
          /\ res.status = "404"
          /\ peer' = [peer EXCEPT !.pc = "publish"]
    /\ UNCHANGED remote
    /\ PeerFrame

\* its engine client and its publish, lines 334-346, on its own machine
Peer_pushImageToRegistry ==
    /\ peer.pc = "publish"
    /\ \E ok \in BOOLEAN :
          peer' = IF ok THEN [peer EXCEPT !.pc = "register"]
                        ELSE [peer EXCEPT !.pc = "done", !.failed = TRUE]
    /\ UNCHANGED remote
    /\ PeerFrame

\* its registration, lines 507-536; line 526 discards the snapshot the
\* platform answered with, peer.registered records it
Peer_registerSnapshot ==
    /\ peer.pc = "register"
    /\ \E res \in CreateSnapshot(remote, CreateRequest(PeerPlan, PeerTarget), MaxClock) :
          /\ remote' = res.remote
          /\ peer' = IF res.status = "ok"
                       THEN [peer EXCEPT !.pc = "ensure", !.registered = FreshId(remote)]
                       ELSE [peer EXCEPT !.pc = "done", !.failed = TRUE]
    /\ PeerFrame

\* its poller, lines 544-570: a fetch by name; an answer that is not ready
\* leaves it polling
Peer_ensureSnapshotAvailable_Poll ==
    /\ peer.pc = "ensure"
    /\ \E res \in GetSnapshot(remote, PeerPlan.name) :
          peer' = CASE res.status # "ok" -> [peer EXCEPT !.pc = "done", !.failed = TRUE]
                    [] res.status = "ok" /\ Availability(res.snap) = "available" ->
                          [peer EXCEPT !.pc = "done", !.id = res.snap.id]
                    [] res.status = "ok" /\ Availability(res.snap) = "failed" ->
                          [peer EXCEPT !.pc = "done", !.failed = TRUE]
                    [] OTHER -> peer
    /\ UNCHANGED remote
    /\ PeerFrame

NextConcurrent ==
    \/ Create_SameName
    \/ maybeCleanupExistingCreationAttempt_Get
    \/ maybeCleanupExistingCreationAttempt_Remove
    \/ maybeCleanupExistingCreationAttempt_Cancelled
    \/ maybeCleanupExistingCreationAttempt_Poll
    \/ createSnapshot_DockerClient
    \/ pushImageToRegistry_Access
    \/ pushImageToRegistry_Inspect
    \/ pushImageToRegistry_Tag
    \/ pushImageToRegistry_Push
    \/ pushImageToRegistry_Cancelled
    \/ pushImageToRegistry_Poll
    \/ registerSnapshot
    \/ ensureSnapshotAvailable_Cancelled
    \/ ensureSnapshotAvailable_Poll
    \/ createSnapshot_Defer
    \/ Cancel
    \/ RemoteBuild
    \/ RemoteRemoved
    \/ Peer_Create
    \/ Peer_maybeCleanupExistingCreationAttempt_Get
    \/ Peer_maybeCleanupExistingCreationAttempt_Remove
    \/ Peer_maybeCleanupExistingCreationAttempt_Poll
    \/ Peer_pushImageToRegistry
    \/ Peer_registerSnapshot
    \/ Peer_ensureSnapshotAvailable_Poll

ConcurrentSpec == InitConcurrent /\ [][NextConcurrent]_vars

(***************************************************************************)
(* Properties                                                              *)
(***************************************************************************)
\* a replacement-triggering field of the desired record d differs from the
\* prior record sd
TriggerChanged(d, sd) ==
    \/ d.name # sd.name
    \/ d.cpu # sd.cpu
    \/ d.memory # sd.memory
    \/ d.disk # sd.disk
    \/ (d.imageName # sd.imageName /\ sd.imageName # EmptyString)

Replacing == op = "Update" /\ TriggerChanged(plan, stateData)

CreatePhases == {"reconcile", "publish", "register", "poll", "cleanup"}

\* C1: in an Update that replaces with keepRemotely true on the desired
\* record, no RemoveSnapshot call precedes the CreateSnapshot call, whichever
\* fields changed.
C1_NoRemoveBeforeCreateWhenKept ==
    (Replacing /\ plan.keepRemotely) =>
        \A j \in DOMAIN calls :
            calls[j].api = "CreateSnapshot" =>
                \A i \in 1..(j - 1) : calls[i].api # "RemoveSnapshot"

\* the prior snapshot's absence was confirmed by a call before the j-th one:
\* the delete phase opened with RemoveSnapshot of the prior id, and that call
\* or a later fetch of the id answered not-found
AbsenceConfirmedBefore(j) ==
    /\ j > 1
    /\ calls[1].phase = "delete"
    /\ calls[1].api = "RemoveSnapshot"
    /\ calls[1].arg = stateData.id
    /\ \E k \in 1..(j - 1) :
          /\ calls[k].phase = "delete"
          /\ calls[k].arg = stateData.id
          /\ calls[k].status = "404"
          /\ \A i \in 1..k : calls[i].phase = "delete"

DeletePhaseError(d) ==
    /\ d.sev = "error"
    /\ \/ d.summary \in {"Deletion Error", "Deletion Verification Error"}
       \/ d.detail = "Unable to delete snapshot"

\* C2: in an Update that replaces with keepRemotely false, RemoveSnapshot of
\* the prior id is issued and the snapshot's absence is confirmed before any
\* call of the create workflow, and after an error of the delete phase no
\* call of the create workflow is issued.
C2_DeleteConfirmedBeforeCreate ==
    (Replacing /\ ~plan.keepRemotely) =>
        /\ \A j \in DOMAIN calls :
              calls[j].phase \in CreatePhases => AbsenceConfirmedBefore(j)
        /\ pc \notin {"ds_remove", "ds_loop", "done"} =>
              AbsenceConfirmedBefore(Len(calls) + 1)
        /\ (\E i \in DOMAIN diags : DeletePhaseError(diags[i])) =>
              /\ pc = "done"
              /\ \A j \in DOMAIN calls : calls[j].phase = "delete"

C2_Witness ==
    /\ Replacing
    /\ ~plan.keepRemotely
    /\ \E k, j \in DOMAIN calls :
          /\ k < j
          /\ calls[k].phase = "delete"
          /\ calls[k].api = "GetSnapshot"
          /\ calls[k].status = "404"
          /\ calls[j].api = "CreateSnapshot"

\* C3: an Update in which no replacement-triggering field changed (the image
\* reference equal, or changed from empty) issues exactly one remote call, a
\* GetSnapshot by the prior id: no RemoveSnapshot, no push, no CreateSnapshot.
C3_InPlaceUpdateOnlyReads ==
    (op = "Update" /\ ~TriggerChanged(plan, stateData)) =>
        /\ pc = "done"
        /\ Len(calls) = 1
        /\ calls[1].api = "GetSnapshot"
        /\ calls[1].arg = stateData.id
        /\ tags = {}

C3_Witness ==
    /\ op = "Update"
    /\ ~TriggerChanged(plan, stateData)
    /\ stateData.imageName = EmptyString
    /\ plan.imageName # EmptyString
    /\ pc = "done"
    /\ Len(calls) = 1

\* C4: Delete of a record whose keepRemotely is true issues no remote call,
\* returns no error and leaves the platform as it was.
C4_KeptDeleteTouchesNothing ==
    [][(op' = "Delete" /\ stateData'.keepRemotely) =>
          /\ pc' = "done"
          /\ calls' = <<>>
          /\ ~HasError(diags')
          /\ remote' = remote
          /\ tags' = tags]_vars

C4_Witness ==
    /\ op = "Delete"
    /\ stateData.keepRemotely
    /\ pc = "done"
    /\ Live(remote["s1"])

\* the call a step has just issued
LastCall == calls'[Len(calls')]

\* a step of the availability poller that fetched the snapshot
PollerFetched ==
    /\ pc = "ensure"
    /\ Len(calls') = Len(calls) + 1
    /\ LastCall.phase = "poll"
    /\ LastCall.status = "ok"

\* the snapshot the platform holds under the name the poller fetches
Polled == remote[CHOOSE i \in Lookup(remote, data.name) : TRUE]

\* C5: the availability poller returns success with the fetched record on
\* the first fetch whose state is active and an error on the first fetch
\* whose state is error or build_failed (the platform's reason when set, a
\* generic message otherwise), and issues no GetSnapshot after either; on
\* any other state it stays in its loop, whose next iteration fetches again.
C5_PollerOutcomes ==
    [][/\ (PollerFetched /\ LastCall.state = "active") =>
             /\ pc' = "cs_defer"
             /\ errs' = errs
             /\ snapshot' = Polled
             /\ data' = PopulateFrom(data, Polled)
       /\ (PollerFetched /\ LastCall.state \in {"error", "build_failed"}) =>
             /\ pc' = "cs_defer"
             /\ Len(errs') = Len(errs) + 1
             /\ errs'[Len(errs')].sev = "error"
             /\ IF Polled.reason # <<>>
                  THEN errs'[Len(errs')].arg = Polled.reason[1]
                  ELSE errs'[Len(errs')].detail =
                          "Snapshot processing failed with unknown reason"
             /\ data' = data
       /\ (PollerFetched /\ LastCall.state \notin TerminalStates) =>
             /\ pc' = "ensure"
             /\ errs' = errs
             /\ data' = data
       /\ (pc \in {"cs_defer", "done"} /\ Len(calls') > Len(calls)) =>
             LastCall.api # "GetSnapshot"]_vars

C5_Witness ==
    /\ pc = "cs_defer"
    /\ \E i, j \in DOMAIN calls :
          /\ i < j
          /\ j = Len(calls)
          /\ calls[i].phase = "poll" /\ calls[i].state = "building"
          /\ calls[j].phase = "poll" /\ calls[j].state = "build_failed"
    /\ snapshot.reason # <<>>
    /\ errs # <<>>

LoopPcs == {"mc_loop", "push_loop", "ensure", "ds_loop"}

CancellationError(d) ==
    /\ d.sev = "error"
    /\ d.detail \in {"Cancelled while waiting for snapshot deletion",
                     "Cancelled during waiting for image to become available",
                     "Cancelled during waiting for snapshot to become available"}

\* C6: when one of the four polling loops (stale-attempt deletion, manifest
\* readiness, snapshot availability, deletion confirmation) finds the context
\* cancelled at the top of an iteration, its phase returns an error naming
\* the cancellation and no later phase starts.
C6_CancelledLoopFails ==
    [][(pc \in LoopPcs /\ cancelled /\ pc' # pc) =>
          /\ pc' \in {"cs_defer", "done"}
          /\ \E i \in DOMAIN (errs' \o diags') : CancellationError((errs' \o diags')[i])]_vars

\* the reconciler's calls: a create workflow opens with them
ReconcilerCalls == {i \in DOMAIN calls : calls[i].phase = "reconcile"}

FirstReconcilerCall == CHOOSE i \in ReconcilerCalls : \A k \in ReconcilerCalls : i <= k

\* C7: in a create workflow whose lookup by name found a snapshot, a fetch
\* of that snapshot answered not-found before the credential request, the
\* push or CreateSnapshot is issued; when the lookup answers not-found the
\* reconciler issues that one GetSnapshot and no RemoveSnapshot, and returns
\* no warning and no error.
C7_ReconcilerRemovesFirst ==
    ReconcilerCalls # {} =>
        /\ calls[FirstReconcilerCall].status = "ok" =>
              \A j \in DOMAIN calls :
                  calls[j].api \in {"GetTransientPushAccess", "ImagePush", "CreateSnapshot"} =>
                      \E k \in ReconcilerCalls :
                          /\ k < j
                          /\ calls[k].api = "GetSnapshot"
                          /\ calls[k].arg = existingId
                          /\ calls[k].status = "404"
        /\ calls[FirstReconcilerCall].status = "404" =>
              /\ Cardinality(ReconcilerCalls) = 1
              /\ \A j \in DOMAIN calls :
                    j >= FirstReconcilerCall => calls[j].api # "RemoveSnapshot"
              /\ mcWarns = <<>>
              /\ warns = <<>>
              /\ \A i \in DOMAIN errs : errs[i].summary # "Snapshot Check"

\* C8: once a create workflow has tagged the local image under the target
\* reference, a removal of that tag has been attempted by the time the
\* workflow returns.
C8_TagRemovedOnEveryExit ==
    pc = "done" =>
        \A i \in DOMAIN calls :
            (calls[i].api = "ImageTag" /\ calls[i].status = "ok") =>
                \E j \in DOMAIN calls :
                    /\ j > i
                    /\ calls[j].api = "ImageRemove"
                    /\ calls[j].ref = calls[i].ref

\* the warnings a create workflow produced: the reconciler's, and the one of
\* a failed removal of the local tag
WarningsProduced ==
    {mcWarns[i] : i \in DOMAIN mcWarns}
    \cup {Diag("warning", "Cleanup Warning", "Failed to remove tagged image", "") :
             i \in {k \in DOMAIN calls :
                       calls[k].api = "ImageRemove" /\ calls[k].status = "err"}}

\* C9: every warning produced during a create workflow is among the
\* diagnostics returned to the framework, whether the workflow succeeds or
\* fails, and no warning makes the outcome an error.
C9_WarningsReturned ==
    (pc = "done" /\ ReconcilerCalls # {}) =>
        /\ \A w \in WarningsProduced : \E i \in DOMAIN diags : diags[i] = w
        /\ (errs = <<>>) => (~HasError(diags) /\ tfstate = data)

RemoteDerived == {"name", "cpu", "gpu", "memory", "disk", "createdAt"}

\* C11: a Read that follows a successful Create, fetching by the id Create
\* stored with no remote change in between, leaves name, cpu, gpu, memory,
\* disk and createdAt of the record as Create stored them.
C11_ReadKeepsWhatCreateStored ==
    (op = "Read" /\ pc = "done") =>
        \A f \in RemoteDerived : data[f] = stateData[f] /\ tfstate[f] = stateData[f]

C11_Witness ==
    /\ op = "Read"
    /\ pc = "done"
    /\ Len(calls) = 1
    /\ calls[1].arg = "s2"
    /\ calls[1].state = "active"
    /\ stateData.id = "s2"
    /\ stateData.cpu = 2
    /\ tfstate.gpu = 0
    /\ Live(remote["s1"])

\* C12: ImportState of an id or name the platform answers not-found for
\* returns an error classified as not-found, another failure of the fetch
\* returns an error of a different classification, and in both cases no
\* record is persisted.
C12_ImportNotFoundIsDistinct ==
    (op = "ImportState" /\ pc = "done" /\ calls[1].status # "ok") =>
        /\ Len(diags) = 1
        /\ diags[1].sev = "error"
        /\ diags[1].arg = calls[1].arg
        /\ (diags[1].summary = "Snapshot Not Found") <=> (calls[1].status = "404")
        /\ tfstate = NoRecord

C12_Witness ==
    /\ op = "ImportState"
    /\ pc = "done"
    /\ calls[1].arg = "n2"
    /\ calls[1].status = "404"
    /\ diags[1].summary = "Snapshot Not Found"
    /\ Live(remote["s1"])
    /\ tfstate = NoRecord

\* C13: Update chooses replacement exactly when name, cpu, memory or disk of
\* the desired record differ from the prior record, or the local image
\* reference differs and the prior one is not empty; a change of the image
\* reference from empty to non-empty alone does not replace.
C13_ReplacementDecision ==
    op = "Update" =>
        /\ (pc \in {"ds_remove", "mc_get"}) <=> TriggerChanged(plan, stateData)
        /\ (pc = "done") <=> ~TriggerChanged(plan, stateData)

C13_Witness ==
    /\ op = "Update"
    /\ pc = "done"
    /\ stateData.imageName = EmptyString
    /\ plan.imageName = ImgB
    /\ plan.name = stateData.name
    /\ plan.cpu = stateData.cpu
    /\ plan.memory = stateData.memory
    /\ plan.disk = stateData.disk
    /\ stateData.cpu = 2

\* C14: a Read whose fetch by id answers not-found returns no error and
\* leaves every field of the record as it was; a Read whose fetch fails in
\* another way returns an error and does not write the persisted state.
C14_ReadNotFoundKeepsRecord ==
    (op = "Read" /\ pc = "done") =>
        /\ calls[1].status = "404" =>
              /\ ~HasError(diags)
              /\ data = stateData
              /\ tfstate = stateData
        /\ calls[1].status = "err" =>
              /\ HasError(diags)
              /\ tfstate = stateData

C14_Witness ==
    /\ op = "Read"
    /\ pc = "done"
    /\ calls[1].arg = "s1"
    /\ calls[1].status = "404"
    /\ ~Live(remote["s1"])
    /\ diags = <<>>
    /\ tfstate = CreatedRecord(FALSE)

\* C15: a Delete with keepRemotely false issues RemoveSnapshot once, and
\* after it only fetches of the id; a not-found answer to the removal is
\* success without polling and another failure of it an error without
\* polling; otherwise Delete succeeds only after a fetch answered not-found,
\* and a fetch that fails otherwise ends Delete with an error.
C15_DeleteRemovesThenConfirms ==
    (op = "Delete" /\ ~stateData.keepRemotely /\ pc # "ds_remove") =>
        /\ calls # <<>>
        /\ calls[1].api = "RemoveSnapshot"
        /\ calls[1].arg = stateData.id
        /\ \A i \in 2..Len(calls) :
              calls[i].api = "GetSnapshot" /\ calls[i].arg = stateData.id
        /\ calls[1].status = "404" =>
              pc = "done" /\ Len(calls) = 1 /\ ~HasError(diags)
        /\ calls[1].status = "err" =>
              pc = "done" /\ Len(calls) = 1 /\ HasError(diags)
        /\ (calls[1].status = "ok" /\ pc = "done" /\ ~HasError(diags)) =>
              Len(calls) > 1 /\ calls[Len(calls)].status = "404"
        /\ \A i \in 2..Len(calls) :
              calls[i].status = "err" =>
                  pc = "done" /\ HasError(diags) /\ i = Len(calls)

C15_Witness ==
    /\ op = "Delete"
    /\ ~stateData.keepRemotely
    /\ pc = "done"
    /\ diags = <<>>
    /\ Len(calls) = 3
    /\ calls[1].status = "ok"
    /\ calls[2].state = "removing"
    /\ calls[3].status = "404"
    /\ ~Live(remote["s1"])

\* the persisted state the invocation started from
PriorState == IF op \in {"Create", "ImportState"} THEN NoRecord ELSE stateData

\* C16: when Create, Read, Update or ImportState returns with an error
\* diagnostic, the persisted state is what it was before the invocation: an
\* Update whose create workflow fails after the old snapshot was deleted
\* keeps the prior record, and a Create whose poller saw a failed snapshot
\* persists nothing.
C16_ErrorLeavesStateUnchanged ==
    (pc = "done" /\ op \in {"Create", "Read", "Update", "ImportState"} /\ HasError(diags)) =>
        tfstate = PriorState

C16_Witness ==
    /\ op = "Update"
    /\ pc = "done"
    /\ \E k \in DOMAIN calls : calls[k].phase = "delete" /\ calls[k].status = "404"
    /\ \E k \in DOMAIN calls : calls[k].phase = "poll" /\ calls[k].state = "build_failed"
    /\ ~Live(remote["s1"])
    /\ HasError(diags)
    /\ tfstate = stateData
    /\ tfstate.id = "s1"

\* the place of a phase in a handler: Update's deletion comes before the
\* phases of createSnapshot, the deferred removal of the tag after them
PhaseRank(phase) ==
    CASE phase \in {"delete", "read", "import"} -> 0
      [] phase = "reconcile" -> 1
      [] phase = "publish" -> 2
      [] phase = "register" -> 3
      [] phase = "poll" -> 4
      [] OTHER -> 5

\* C17: a create workflow issues the calls of its phases in the order
\* reconciler, publisher, registrar, poller, and after a phase returned an
\* error it issues no call of a later phase: a failed lookup of the
\* reconciler is its last call, a publisher error leaves no CreateSnapshot,
\* and a failed CreateSnapshot leaves no availability poll.
C17_PhasesInOrderAbortOnError ==
    /\ \A j \in 2..Len(calls) :
          PhaseRank(calls[j - 1].phase) <= PhaseRank(calls[j].phase)
    /\ errs # <<>> => pc \in {"cs_defer", "done"}
    /\ \A i \in ReconcilerCalls :
          (i = FirstReconcilerCall /\ calls[i].status = "err") => i = Len(calls)
    /\ \A i \in DOMAIN calls :
          (/\ calls[i].phase = "publish"
           /\ calls[i].status = "err"
           /\ calls[i].api # "DistributionInspect") => i = Len(calls)
    /\ (\E k \in DOMAIN errs : errs[k].summary = "Image Availability Error") =>
          \A j \in DOMAIN calls : calls[j].phase \notin {"register", "poll", "cleanup"}
    /\ \A i \in DOMAIN calls :
          (calls[i].api = "CreateSnapshot" /\ calls[i].status = "err") =>
              \A j \in (i + 1)..Len(calls) : calls[j].phase = "cleanup"

C17_Witness ==
    /\ pc = "done"
    /\ op = "Create"
    /\ \E i \in DOMAIN calls :
          /\ calls[i].phase = "reconcile"
          /\ calls[i].api = "RemoveSnapshot"
    /\ calls[Len(calls)].api = "ImagePush"
    /\ calls[Len(calls)].status = "err"
    /\ \A j \in DOMAIN calls : calls[j].api # "CreateSnapshot"
    /\ HasError(diags)

\* C18: when the reconciler's RemoveSnapshot fails, the reconciler records a
\* warning and no error, and it does not wait for the snapshot to go: a
\* fetch that does not answer not-found does not keep the workflow in the
\* reconciler, which returns so that the publish phase starts.
C18_FailedRemovalDoesNotBlock ==
    [][/\ (pc = "mc_remove" /\ pc' # pc /\ LastCall.status # "ok") =>
             /\ Len(mcWarns') = Len(mcWarns) + 1
             /\ mcWarns'[Len(mcWarns')].sev = "warning"
             /\ errs' = errs
             /\ diags' = diags
       /\ (/\ pc = "mc_loop"
           /\ mcWarns # <<>>
           /\ Len(calls') = Len(calls) + 1
           /\ LastCall.status # "404") => pc' = "cs_docker"]_vars

\* the calls that leave the machine: the platform's API, the push to the
\* registry and the inspection of the registry's manifest
RemoteApis ==
    {"GetSnapshot", "RemoveSnapshot", "CreateSnapshot", "GetTransientPushAccess",
     "ImagePush", "DistributionInspect"}

Registrations == {i \in DOMAIN calls : calls[i].api = "CreateSnapshot"}

\* the remote calls a create workflow issued more than once
RepeatedRemoteCalls ==
    {calls[i].api : i \in {k \in DOMAIN calls :
        /\ calls[k].phase \in CreatePhases
        /\ calls[k].api \in RemoteApis
        /\ \E j \in DOMAIN calls :
              j # k /\ calls[j].phase = calls[k].phase /\ calls[j].api = calls[k].api}}

\* C19: a create workflow issues CreateSnapshot at most once, a failed
\* registration being final, and the only remote call it repeats is the
\* GetSnapshot of its polls.
C19_OnlySnapshotFetchesRepeat ==
    /\ Cardinality(Registrations) <= 1
    /\ RepeatedRemoteCalls \subseteq {"GetSnapshot"}

\* C19 (amended): a create workflow issues CreateSnapshot at most once, a
\* failed registration being final, and the only remote calls it repeats
\* are the GetSnapshot of its polls and the publisher's inspection of the
\* pushed manifest.
C19_RegistrationAtMostOnce ==
    /\ Cardinality(Registrations) <= 1
    /\ \A i \in Registrations :
          calls[i].status = "err" =>
              \A j \in (i + 1)..Len(calls) : calls[j].api = "ImageRemove"
    /\ RepeatedRemoteCalls \subseteq {"GetSnapshot", "DistributionInspect"}

C19_Witness ==
    /\ pc = "done"
    /\ \E i \in Registrations : calls[i].status = "err" /\ i = Len(calls) - 1
    /\ RepeatedRemoteCalls = {"GetSnapshot", "DistributionInspect"}
    /\ HasError(diags)

\* the answer a polling loop has just received ends its wait
DecisiveAnswer ==
    /\ Len(calls') = Len(calls) + 1
    /\ CASE pc = "mc_loop" -> LastCall.status = "404"
         [] pc = "push_loop" -> LastCall.status = "ok"
         [] pc = "ensure" -> LastCall.status # "ok" \/ LastCall.state \in TerminalStates
         [] pc = "ds_loop" -> LastCall.status \in {"404", "err"}
         [] OTHER -> FALSE

\* C20: a polling loop is left only on an answer that ends its wait or on
\* cancellation, never on a count of retries, and after any other answer it
\* stays in the loop; and once the context is cancelled the invocation
\* eventually returns, whatever the platform and the registry answer.
C20_LoopsEndOnAnswerOrCancellation ==
    /\ [][/\ (pc \in LoopPcs /\ pc' # pc) => (cancelled \/ DecisiveAnswer)
          /\ (pc \in LoopPcs /\ Len(calls') = Len(calls) + 1 /\ ~DecisiveAnswer) =>
                (pc' = pc /\ ~HasError(errs') /\ ~HasError(diags'))]_vars
    /\ cancelled ~> (pc = "done")

C20_Witness ==
    /\ op = "Update"
    /\ pc = "done"
    /\ cancelled
    /\ \E i \in DOMAIN calls :
          calls[i].phase = "delete" /\ calls[i].api = "GetSnapshot" /\ calls[i].status = "ok"
    /\ \E i \in DOMAIN diags : CancellationError(diags[i])

\* the snapshot the platform holds under the id or name an import asked for;
\* an optional field of it is a sequence of at most one value, and the record
\* holds that value, or null when the snapshot has none
Imported == remote[CHOOSE i \in Lookup(remote, calls[1].arg) : TRUE]

\* C21: an ImportState whose fetch succeeded persists a record whose id,
\* name, cpu, gpu, memory, disk, createdAt, organization id, size and remote
\* image reference are those of the fetched snapshot, whose keepRemotely is
\* false and whose local image reference is empty, whatever the state of
\* the snapshot.
C21_ImportPersistsFetchedSnapshot ==
    (op = "ImportState" /\ pc = "done" /\ calls[1].status = "ok") =>
        /\ diags = <<>>
        /\ tfstate.id = Imported.id
        /\ tfstate.name = Imported.name
        /\ tfstate.cpu = Imported.cpu
        /\ tfstate.gpu = Imported.gpu
        /\ tfstate.memory = Imported.mem
        /\ tfstate.disk = Imported.disk
        /\ tfstate.createdAt = Imported.createdAt \div TicksPerSecond
        /\ Imported.org \in {<<tfstate.organizationId>>} \cup
                            {<<>> : x \in {tfstate.organizationId} \cap {NullString}}
        /\ Imported.size \in {<<tfstate.size>>} \cup
                             {<<>> : x \in {tfstate.size} \cap {NullInt}}
        /\ Imported.image \in {<<tfstate.remoteImageName>>} \cup
                              {<<>> : x \in {tfstate.remoteImageName} \cap {NullRef}}
        /\ tfstate.keepRemotely = FALSE
        /\ tfstate.imageName = <<>>

C21_Witness ==
    /\ op = "ImportState"
    /\ pc = "done"
    /\ calls[1].arg = "n1"
    /\ calls[1].state = "error"
    /\ tfstate.id = "s1"
    /\ tfstate.imageName = <<>>
    /\ tfstate.remoteImageName = OldRef

Digits == {"0", "1", "2", "3", "4", "5", "6", "7", "8", "9"}

\* the last '/'-separated segment of the part of img before its first ':'
BaseName(img) ==
    LET colons == {i \in DOMAIN img : img[i] = ":"}
        e == IF colons = {}
               THEN Len(img)
               ELSE (CHOOSE i \in colons : \A j \in colons : i <= j) - 1
        slashes == {i \in 1..e : img[i] = "/"}
        b == IF slashes = {}
               THEN 1
               ELSE (CHOOSE i \in slashes : \A j \in slashes : i >= j) + 1
    IN  SubSeq(img, b, e)

\* ref is registryURL/project/base:timestamp for the local image img, the
\* timestamp being 14 digits
WellFormedRef(ref, img) ==
    LET prefix == RegistryUrl \o <<"/">> \o Project \o <<"/">> \o BaseName(img)
        n == Len(prefix)
    IN  /\ Len(ref) = n + 15
        /\ SubSeq(ref, 1, n) = prefix
        /\ ref[n + 1] = ":"
        /\ \A k \in (n + 2)..(n + 15) : ref[k] \in Digits

\* C22: the image reference of the CreateSnapshot request is the target
\* reference the publisher tagged and pushed, and it has the form
\* registryURL/project/base:timestamp, base being the last '/'-separated
\* segment of the local image name before its first ':' and timestamp being
\* 14 digits.
C22_RequestCarriesPushedReference ==
    \A i \in DOMAIN calls :
        calls[i].api = "CreateSnapshot" =>
            /\ \E t, p \in 1..(i - 1) :
                  /\ t < p
                  /\ calls[t].api = "ImageTag" /\ calls[t].status = "ok"
                  /\ calls[p].api = "ImagePush" /\ calls[p].status = "ok"
                  /\ calls[t].ref = calls[i].ref
                  /\ calls[p].ref = calls[i].ref
            /\ WellFormedRef(calls[i].ref, plan.imageName)
            /\ calls[i].status = "ok" =>
                  \E id \in SnapIds :
                      /\ remote[id].name = calls[i].arg
                      /\ remote[id].image = <<calls[i].ref>>

C22_Witness ==
    /\ op = "Create"
    /\ pc = "done"
    /\ plan.imageName = ImgA
    /\ tfstate # NoRecord
    /\ \E i \in DOMAIN calls :
          /\ calls[i].api = "CreateSnapshot"
          /\ calls[i].status = "ok"
          /\ tfstate.remoteImageName = calls[i].ref
          /\ SubSeq(calls[i].ref, 1, 6) = <<"r", "/", "p", "/", "b", ":">>
          /\ Len(calls[i].ref) = 20

\* C23: during availability polling a GetSnapshot that fails, a not-found
\* answer for the name just registered included, ends the polling with one
\* more error, "Snapshot Availability Error", and the poller fetches no
\* more; the poller stays in its loop only after a fetch that succeeded
\* with a state that is not terminal.
C23_FailedFetchEndsPolling ==
    [][/\ (pc = "ensure" /\ calls' # calls) =>
             /\ LastCall.phase = "poll"
             /\ LastCall.api = "GetSnapshot"
             /\ LastCall.status # "ok" =>
                   /\ pc' = "cs_defer"
                   /\ Len(errs') = Len(errs) + 1
                   /\ errs'[Len(errs')].sev = "error"
                   /\ errs'[Len(errs')].summary = "Snapshot Availability Error"
                   /\ snapshot' = snapshot
                   /\ data' = data
             /\ pc' = "ensure" =>
                   /\ LastCall.status = "ok"
                   /\ LastCall.state \notin TerminalStates
       /\ (pc # "ensure" /\ calls' # calls) => LastCall.phase # "poll"]_vars

C23_Witness ==
    /\ op = "Create"
    /\ pc = "done"
    /\ HasError(diags)
    /\ tfstate = NoRecord
    /\ \E i \in DOMAIN calls :
          /\ calls[i].api = "CreateSnapshot"
          /\ calls[i].status = "ok"
          /\ \E j \in (i + 1)..Len(calls) :
                /\ calls[j].phase = "poll"
                /\ calls[j].status = "404"
                /\ \A k \in (j + 1)..Len(calls) : calls[k].api # "GetSnapshot"

\* the Create of the handlers returned success
MainSucceeded == op = "Create" /\ pc = "done" /\ ~HasError(diags) /\ tfstate # NoRecord

\* the second Create returned success
PeerSucceeded == peer.pc = "done" /\ ~peer.failed

\* the platform was asked to remove the snapshot of this id
Removed(id) == id \in SnapIds /\ remote[id].state \in {"removing", "gone"}

\* C24: of two concurrent Creates of one name, each one that returns
\* success returns the id of the snapshot its own CreateSnapshot call
\* registered (for the Create of the handlers: the snapshot that carries
\* the reference it submitted), so two successful invocations return
\* different ids and none returns the id of a snapshot the other one's
\* reconciler removed.
C24_SuccessReturnsOwnSnapshot ==
    /\ MainSucceeded =>
          /\ tfstate.id = snapshot.id
          /\ \E i \in DOMAIN calls :
                /\ calls[i].api = "CreateSnapshot"
                /\ calls[i].status = "ok"
                /\ snapshot.image = <<calls[i].ref>>
          /\ ~(tfstate.id = peer.existingId /\ Removed(tfstate.id))
    /\ PeerSucceeded =>
          /\ peer.id = peer.registered
          /\ ~(peer.id = existingId /\ Removed(peer.id))
    /\ (MainSucceeded /\ PeerSucceeded) => tfstate.id # peer.id

====
